---- MODULE Spec2Model ----
(***************************************************************************)
(* Wire codec of the world-server and world-client messages of lu_packets: *)
(* the hand-written Deserialize / Serialize implementations of             *)
(* src/world/server/mod.rs and src/world/client/mod.rs.                    *)
(*                                                                         *)
(* A byte stream is decoded from an in-memory reader; a value is encoded   *)
(* into an in-memory writer.  The state is the stream in flight, the value *)
(* that was encoded into it (if any) and the outcome of the last decode.   *)
(***************************************************************************)
EXTENDS Integers, Sequences, FiniteSets, TLC

VARIABLES build, wire, sent, recv

vars == <<build, wire, sent, recv>>

(***************************************************************************)
(* Bounds of the model.                                                    *)
(***************************************************************************)
\* longest explicit variable-length string drawn as an input
MaxLen == 2
\* longest content of a fixed-capacity wide string drawn as an input
MaxName == 1
\* most records of a character list drawn below the u8 boundary
MaxChars == 2

(***************************************************************************)
(* Numbers.  A quantity that may exceed 16 bits (a u32, a usize byte       *)
(* count) is a pair of base-65536 digits [hi, lo]; hi is unbounded for a   *)
(* usize and below 65536 for a u32.                                        *)
(***************************************************************************)
Pow8 == 256
Pow15 == 32768
Pow16 == 65536

W(h, l) == [hi |-> h, lo |-> l]

WOfInt(n) == W(n \div Pow16, n % Pow16)

WLeq(a, b) == a.hi < b.hi \/ (a.hi = b.hi /\ a.lo <= b.lo)

WMin(a, b) == IF WLeq(a, b) THEN a ELSE b

\* a - b for b <= a
WSub(a, b) ==
    IF a.lo >= b.lo THEN W(a.hi - b.hi, a.lo - b.lo)
    ELSE W(a.hi - b.hi - 1, a.lo + Pow16 - b.lo)

WAdd(a, b) == W(a.hi + b.hi + ((a.lo + b.lo) \div Pow16), (a.lo + b.lo) % Pow16)

\* the mathematical product 2 * a
WDouble(a) == WAdd(a, a)

WZero == W(0, 0)

(***************************************************************************)
(* The reader: an in-memory byte slice.  Its bytes are given explicitly,   *)
(* followed by `tail` further zero bytes (a long run is kept as a count).  *)
(***************************************************************************)
Reader(bs, t) == [bytes |-> bs, tail |-> t]

Avail(r) == WAdd(r.tail, WOfInt(Len(r.bytes)))

\* the first k bytes of r, k an integer not above the bytes available
Front(r, k) == [i \in 1..k |-> IF i <= Len(r.bytes) THEN r.bytes[i] ELSE 0]

\* r advanced by k bytes, k an integer not above the bytes available
Advance(r, k) ==
    IF k <= Len(r.bytes)
    THEN Reader(SubSeq(r.bytes, k + 1, Len(r.bytes)), r.tail)
    ELSE Reader(<<>>, WSub(r.tail, WOfInt(k - Len(r.bytes))))

Ok(v, r) == [kind |-> "ok", val |-> v, rest |-> r]

Err(r) == [kind |-> "err", rest |-> r]

\* the thread panics (an overflow check, a checked precondition)
Panic(r) == [kind |-> "panic", rest |-> r]

\* undefined behaviour: a slice is formed over memory outside its buffer
Undefined(r) == [kind |-> "ub", rest |-> r]

\* a zero-length slice formed from the 1-aligned dangling pointer of an
\* empty Vec<u8>, read as *const u16: the value is v where the build does
\* not check the precondition of slice::from_raw_parts
Unaligned(v, r) == [kind |-> "unaligned", val |-> v, rest |-> r]

\* what a build can produce for a result
Outcomes(b, res) ==
    IF res.kind = "ub" THEN {[kind |-> "crash"], [kind |-> "garbage"]}
    ELSE IF res.kind = "unaligned"
    THEN {Ok(res.val, res.rest)} \cup (IF b = "debug" THEN {Panic(res.rest)} ELSE {})
    ELSE {res}

\* r advanced by a (possibly large) count k of bytes not above those available
AdvanceW(r, k) ==
    IF k.hi = 0 /\ k.lo <= Len(r.bytes) THEN Advance(r, k.lo)
    ELSE Reader(<<>>, WSub(r.tail, WSub(k, WOfInt(Len(r.bytes)))))

\* Read::read_exact of k bytes, as LERead::read does for a primitive:
\* all k bytes or an error
ReadExact(r, k) ==
    IF WLeq(WOfInt(k), Avail(r)) THEN Ok(Front(r, k), Advance(r, k)) ELSE Err(r)

\* Read::read of an in-memory slice into a zeroed buffer of k bytes: copies
\* min(k, available) bytes, never fails, leaves the rest of the buffer zero
ReadSome(r, k) ==
    LET n == WMin(WOfInt(k), Avail(r)).lo
        got == Front(r, n)
    IN  [buf |-> [i \in 1..k |-> IF i <= n THEN got[i] ELSE 0],
         n |-> n, rest |-> Advance(r, n)]

U16Of(b) == b[1] + Pow8 * b[2]

U16Bytes(n) == <<n % Pow8, n \div Pow8>>

U32Of(b) == W(b[3] + Pow8 * b[4], b[1] + Pow8 * b[2])

U32Bytes(w) == U16Bytes(w.lo) \o U16Bytes(w.hi)

Zeros(k) == [i \in 1..k |-> 0]

\* the concatenation of a sequence of byte sequences (split in halves to
\* keep the evaluation shallow)
RECURSIVE Concat(_)
Concat(ss) ==
    IF ss = <<>> THEN <<>>
    ELSE IF Len(ss) = 1 THEN ss[1]
    ELSE LET h == Len(ss) \div 2
         IN  Concat(SubSeq(ss, 1, h)) \o Concat(SubSeq(ss, h + 1, Len(ss)))

\* all sequences over S of length at most n
SeqsUpTo(S, n) == UNION {[1..k -> S] : k \in 0..n}

None == [type |-> "none"]

(***************************************************************************)
(* CharListChar (world/client): a derived codec.  Its leading field, the   *)
(* u64 obj_id with the four padding bytes that follow it, is modelled; an  *)
(* obj_id is kept as its eight bytes.                                      *)
(***************************************************************************)
ObjIdLen == 8
ObjIdPad == 4

CharListChar_serialize(chr) == chr.obj_id \o Zeros(ObjIdPad)

CharListChar_deserialize(r) ==
    LET a == ReadExact(r, ObjIdLen)
    IN  IF a.kind = "err" THEN Err(a.rest)
        ELSE LET b == ReadExact(a.rest, ObjIdPad)
             IN  IF b.kind = "err" THEN Err(b.rest)
                 ELSE Ok([obj_id |-> a.val], b.rest)

(***************************************************************************)
(* CharacterListResponse (world/client)                                    *)
(***************************************************************************)
\* for _ in 0..len { chars.push(reader.read()?); }
\* the len reads in order, the first failure ending the loop (the loop is
\* split in halves to keep the evaluation shallow)
RECURSIVE ReadChars(_, _)
ReadChars(r, len) ==
    IF len = 0 THEN Ok(<<>>, r)
    ELSE IF len = 1
    THEN LET c == CharListChar_deserialize(r)
         IN  IF c.kind = "err" THEN Err(c.rest) ELSE Ok(<<c.val>>, c.rest)
    ELSE LET a == ReadChars(r, len \div 2)
         IN  IF a.kind = "err" THEN Err(a.rest)
             ELSE LET b == ReadChars(a.rest, len - (len \div 2))
                  IN  IF b.kind = "err" THEN Err(b.rest)
                      ELSE Ok(a.val \o b.val, b.rest)

\* a decoder that reads the fields in their logical order: the scalar, then
\* the count
CharacterListResponse_deserialize_scalarFirst(r) ==
    LET selected_char == ReadExact(r, 1)
    IN  IF selected_char.kind = "err" THEN Err(selected_char.rest)
        ELSE LET len == ReadExact(selected_char.rest, 1)
             IN  IF len.kind = "err" THEN Err(len.rest)
                 ELSE LET chars == ReadChars(len.rest, len.val[1])
                      IN  IF chars.kind = "err" THEN Err(chars.rest)
                          ELSE Ok([selected_char |-> selected_char.val[1],
                                   chars |-> chars.val], chars.rest)

CharacterListResponse_deserialize(r) ==
    LET len == ReadExact(r, 1)
    IN  IF len.kind = "err" THEN Err(len.rest)
        ELSE LET selected_char == ReadExact(len.rest, 1)
             IN  IF selected_char.kind = "err" THEN Err(selected_char.rest)
                 ELSE LET chars == ReadChars(selected_char.rest, len.val[1])
                      IN  IF chars.kind = "err" THEN Err(chars.rest)
                          ELSE Ok([selected_char |-> selected_char.val[1],
                                   chars |-> chars.val], chars.rest)

\* self.chars.len() as u8
LenAsU8(chars) == Len(chars) % Pow8

CharacterListResponse_serialize(m) ==
    <<LenAsU8(m.chars)>> \o <<m.selected_char>>
        \o Concat([i \in 1..Len(m.chars) |-> CharListChar_serialize(m.chars[i])])

(***************************************************************************)
(* 16-bit code units.  A buffer of bytes is read as code units in the      *)
(* byte order of the (little-endian) target.                               *)
(***************************************************************************)
UnitsOf(bs) == [i \in 1..(Len(bs) \div 2) |-> bs[2 * i - 1] + Pow8 * bs[2 * i]]

BytesOf(us) ==
    [i \in 1..(2 * Len(us)) |->
        IF i % 2 = 1 THEN us[(i + 1) \div 2] % Pow8 ELSE us[i \div 2] \div Pow8]

(***************************************************************************)
(* Fixed-capacity wide strings LuWStr33 / LuWStr42 (crate::common): cap    *)
(* code units on the wire, the content ending at the first zero unit, the  *)
(* remaining units written as zero.                                        *)
(***************************************************************************)
Cap33 == 33
Cap42 == 42

LuWStr_content(us) ==
    LET zs == {i \in 1..Len(us) : us[i] = 0}
    IN  IF zs = {} THEN us
        ELSE SubSeq(us, 1, (CHOOSE i \in zs : \A j \in zs : i <= j) - 1)

LuWStr_deserialize(r, cap) ==
    LET a == ReadExact(r, 2 * cap)
    IN  IF a.kind = "err" THEN Err(a.rest)
        ELSE Ok(LuWStr_content(UnitsOf(a.val)), a.rest)

LuWStr_serialize(str, cap) == BytesOf(str \o Zeros(cap - Len(str)))

(***************************************************************************)
(* ClientValidation (world/server)                                         *)
(***************************************************************************)
ChecksumLen == 32

\* a decoder that stops after the checksum, leaving the filler byte unread
ClientValidation_deserialize_noFiller(r) ==
    LET username == LuWStr_deserialize(r, Cap33)
    IN  IF username.kind = "err" THEN Err(username.rest)
        ELSE LET session_key == LuWStr_deserialize(username.rest, Cap33)
             IN  IF session_key.kind = "err" THEN Err(session_key.rest)
                 ELSE LET fdb_checksum == ReadSome(session_key.rest, ChecksumLen)
                      IN  Ok([username |-> username.val,
                              session_key |-> session_key.val,
                              fdb_checksum |-> fdb_checksum.buf],
                             fdb_checksum.rest)

ClientValidation_deserialize(r) ==
    LET username == LuWStr_deserialize(r, Cap33)
    IN  IF username.kind = "err" THEN Err(username.rest)
        ELSE LET session_key == LuWStr_deserialize(username.rest, Cap33)
             IN  IF session_key.kind = "err" THEN Err(session_key.rest)
                 ELSE LET fdb_checksum == ReadSome(session_key.rest, ChecksumLen)
                          garbage == ReadExact(fdb_checksum.rest, 1)
                      IN  IF garbage.kind = "err" THEN Err(garbage.rest)
                          ELSE Ok([username |-> username.val,
                                   session_key |-> session_key.val,
                                   fdb_checksum |-> fdb_checksum.buf],
                                  garbage.rest)

ClientValidation_serialize(m) ==
    LuWStr_serialize(m.username, Cap33)
        \o LuWStr_serialize(m.session_key, Cap33)
        \o m.fdb_checksum
        \o <<0>>

(***************************************************************************)
(* CharacterCreateRequest (world/server)                                   *)
(***************************************************************************)
\* a run of reader.read()? calls of the given byte widths: the values in
\* order, or the first failure
RECURSIVE ReadAll(_, _)
ReadAll(r, widths) ==
    IF widths = <<>> THEN Ok(<<>>, r)
    ELSE LET a == ReadExact(r, Head(widths))
         IN  IF a.kind = "err" THEN Err(a.rest)
             ELSE LET b == ReadAll(a.rest, Tail(widths))
                  IN  IF b.kind = "err" THEN Err(b.rest)
                      ELSE Ok(<<a.val>> \o b.val, b.rest)

\* the reads after char_name, in order: name ids 1..3, u8, u32, u32,
\* shirt_color, u32, pants_color, hair_style, hair_color, u32, u32,
\* eyebrow_style, eye_style, mouth_style, u8
CharacterCreateRequest_widths == <<4, 4, 4, 1, 4, 4, 4, 4, 4, 4, 4, 4, 4, 4, 4, 4, 1>>

CharacterCreateRequest_deserialize(r) ==
    LET char_name == LuWStr_deserialize(r, Cap33)
    IN  IF char_name.kind = "err" THEN Err(char_name.rest)
        ELSE LET f == ReadAll(char_name.rest, CharacterCreateRequest_widths)
             IN  IF f.kind = "err" THEN Err(f.rest)
                 ELSE Ok([char_name |-> char_name.val,
                          predef_name_ids |->
                              <<U32Of(f.val[1]), U32Of(f.val[2]), U32Of(f.val[3])>>,
                          shirt_color |-> U32Of(f.val[7]),
                          pants_color |-> U32Of(f.val[9]),
                          hair_style |-> U32Of(f.val[10]),
                          hair_color |-> U32Of(f.val[11]),
                          eyebrow_style |-> U32Of(f.val[14]),
                          eye_style |-> U32Of(f.val[15]),
                          mouth_style |-> U32Of(f.val[16])],
                         f.rest)

\* an encoder that leaves out the unused u32 after shirt_color
CharacterCreateRequest_serialize_noPad(m) ==
    LuWStr_serialize(m.char_name, Cap33)
        \o U32Bytes(m.predef_name_ids[1])
        \o U32Bytes(m.predef_name_ids[2])
        \o U32Bytes(m.predef_name_ids[3])
        \o <<0>>
        \o U32Bytes(WZero)
        \o U32Bytes(WZero)
        \o U32Bytes(m.shirt_color)
        \o U32Bytes(m.pants_color)
        \o U32Bytes(m.hair_style)
        \o U32Bytes(m.hair_color)
        \o U32Bytes(WZero)
        \o U32Bytes(WZero)
        \o U32Bytes(m.eyebrow_style)
        \o U32Bytes(m.eye_style)
        \o U32Bytes(m.mouth_style)
        \o <<0>>

CharacterCreateRequest_serialize(m) ==
    LuWStr_serialize(m.char_name, Cap33)
        \o U32Bytes(m.predef_name_ids[1])
        \o U32Bytes(m.predef_name_ids[2])
        \o U32Bytes(m.predef_name_ids[3])
        \o <<0>>
        \o U32Bytes(WZero)
        \o U32Bytes(WZero)
        \o U32Bytes(m.shirt_color)
        \o U32Bytes(WZero)
        \o U32Bytes(m.pants_color)
        \o U32Bytes(m.hair_style)
        \o U32Bytes(m.hair_color)
        \o U32Bytes(WZero)
        \o U32Bytes(WZero)
        \o U32Bytes(m.eyebrow_style)
        \o U32Bytes(m.eye_style)
        \o U32Bytes(m.mouth_style)
        \o <<0>>

(***************************************************************************)
(* String <-> UTF-16.  The text of a String is a sequence of Unicode scalar *)
(* values.                                                                 *)
(***************************************************************************)
IsHigh(u) == u >= 55296 /\ u <= 56319

IsLow(u) == u >= 56320 /\ u <= 57343

\* String::from_utf16_lossy: a surrogate pair is one scalar value, a lone
\* surrogate is U+FFFD
from_utf16_lossy(us) ==
    LET n == Len(us)
        Leads(i) == ~(i > 1 /\ IsLow(us[i]) /\ IsHigh(us[i - 1]))
        starts == SelectSeq([i \in 1..n |-> i], Leads)
        Scalar(i) ==
            IF IsHigh(us[i]) /\ i < n /\ IsLow(us[i + 1])
            THEN 65536 + (us[i] - 55296) * 1024 + (us[i + 1] - 56320)
            ELSE IF IsHigh(us[i]) \/ IsLow(us[i]) THEN 65533
            ELSE us[i]
    IN  [k \in 1..Len(starts) |-> Scalar(starts[k])]

\* str::encode_utf16
encode_utf16(str) ==
    Concat([i \in 1..Len(str) |->
               IF str[i] < 65536 THEN <<str[i]>>
               ELSE <<55296 + ((str[i] - 65536) \div 1024),
                      56320 + ((str[i] - 65536) % 1024)>>])

\* A String value: its scalar values, a trailing run of U+0000 being kept
\* as a count (text does not end in U+0000)
Str(text, nuls) == [text |-> text, nuls |-> nuls]

StrOf(chars) ==
    LET cs == chars
        nz == {i \in 1..Len(cs) : cs[i] # 0}
        last == IF nz = {} THEN 0 ELSE CHOOSE i \in nz : \A j \in nz : j <= i
    IN  Str(SubSeq(cs, 1, last), Len(cs) - last)

\* the number of code units of str.encode_utf16()
Utf16Len(str) == Len(encode_utf16(str.text)) + str.nuls

(***************************************************************************)
(* GeneralChatMessage (world/server)                                       *)
(***************************************************************************)
\* the byte count of an explicit buffer
IntOf(w) == w.hi * Pow16 + w.lo

GeneralChatMessage_deserialize(b, r) ==
    LET f == ReadAll(r, <<1, 2, 4>>)
    IN  IF f.kind = "err" THEN Err(f.rest)
        ELSE
        LET chat_channel == f.val[1][1]
            source_id == U16Of(f.val[2])
            string_len == U32Of(f.val[3])
            \* string_len*2 in u32
            product == WDouble(string_len)
            overflow == product.hi >= Pow16
            size == W(product.hi % Pow16, product.lo)
            \* Read::take(reader, size) then Read::read into vec![0; size]
            n == WMin(size, Avail(f.rest))
            rest == AdvanceW(f.rest, n)
        IN  IF overflow /\ b = "debug" THEN Panic(f.rest)
            \* string_len as usize - 1
            ELSE IF string_len = WZero
            THEN (IF b = "debug" THEN Panic(rest) ELSE Undefined(rest))
            \* from_raw_parts(ptr, string_len - 1) over a buffer of size bytes
            ELSE IF ~WLeq(WDouble(WSub(string_len, W(0, 1))), size)
            THEN Undefined(rest)
            ELSE LET string == ReadSome(f.rest, IntOf(size)).buf
                     string_slice == SubSeq(UnitsOf(string), 1, IntOf(string_len) - 1)
                 IN  Ok([chat_channel |-> chat_channel, source_id |-> source_id,
                         message |-> from_utf16_lossy(string_slice)], rest)

(***************************************************************************)
(* StringCheck (world/server)                                              *)
(***************************************************************************)
StringCheck_deserialize(b, r) ==
    LET f == ReadAll(r, <<1, 1>>)
    IN  IF f.kind = "err" THEN Err(f.rest)
        ELSE
        LET recipient_name == LuWStr_deserialize(f.rest, Cap42)
        IN  IF recipient_name.kind = "err" THEN Err(recipient_name.rest)
            ELSE
            LET len == ReadExact(recipient_name.rest, 2)
            IN  IF len.kind = "err" THEN Err(len.rest)
                ELSE
                LET string_len == U16Of(len.val)
                    \* string_len*2 in u16
                    overflow == string_len * 2 >= Pow16
                    size == (string_len * 2) % Pow16
                    got == ReadSome(len.rest, size)
                    string_slice == SubSeq(UnitsOf(got.buf), 1, string_len)
                    m == [chat_mode |-> f.val[1][1], chat_channel |-> f.val[2][1],
                          recipient_name |-> recipient_name.val,
                          string |-> StrOf(from_utf16_lossy(string_slice))]
                IN  IF overflow /\ b = "debug" THEN Panic(len.rest)
                    \* from_raw_parts(ptr, string_len) over a buffer of size bytes
                    ELSE IF string_len * 2 > size THEN Undefined(got.rest)
                    ELSE IF size = 0 THEN Unaligned(m, got.rest)
                    ELSE Ok(m, got.rest)

\* utf16_str.len() as u16
LenAsU16(len) == len % Pow16

\* the bytes written: those given explicitly, then the zero bytes of the
\* trailing U+0000 code units
StringCheck_serialize(m) ==
    LET utf16_text == encode_utf16(m.string.text)
    IN  Reader(<<m.chat_mode>> \o <<m.chat_channel>>
                   \o LuWStr_serialize(m.recipient_name, Cap42)
                   \o U16Bytes(LenAsU16(Utf16Len(m.string)))
                   \o BytesOf(utf16_text),
               WOfInt(2 * m.string.nuls))

(***************************************************************************)
(* RouteMessage (world/server).  ServiceId and ChatMessage are declared in *)
(* crate::common and crate::chat::server: a ServiceId is a closed u16      *)
(* identifier, a ChatMessage is kept as its u32 discriminant.              *)
(***************************************************************************)
ServiceId_General == 0
ServiceId_Auth == 1
ServiceId_Chat == 2
ServiceId_World == 4
ServiceId_Client == 5

ServiceIds ==
    {ServiceId_General, ServiceId_Auth, ServiceId_Chat, ServiceId_World,
     ServiceId_Client}

ServiceId_deserialize(r) ==
    LET a == ReadExact(r, 2)
    IN  IF a.kind = "err" THEN Err(a.rest)
        ELSE IF U16Of(a.val) \notin ServiceIds THEN Err(a.rest)
        ELSE Ok(U16Of(a.val), a.rest)

ChatMessage_deserialize(r) ==
    LET a == ReadExact(r, 4)
    IN  IF a.kind = "err" THEN Err(a.rest) ELSE Ok([disc |-> U32Of(a.val)], a.rest)

ChatMessage_serialize(msg) == U32Bytes(msg.disc)

\* a decoder that takes the payload of every known service for a chat message
RouteMessage_deserialize_anyService(r) ==
    LET packet_size == ReadExact(r, 4)
    IN  IF packet_size.kind = "err" THEN Err(packet_size.rest)
        ELSE LET service_id == ServiceId_deserialize(packet_size.rest)
             IN  IF service_id.kind = "err" THEN Err(service_id.rest)
                 ELSE LET msg == ChatMessage_deserialize(service_id.rest)
                      IN  IF msg.kind = "err" THEN Err(msg.rest)
                          ELSE Ok([variant |-> "Chat", msg |-> msg.val], msg.rest)

RouteMessage_deserialize(r) ==
    LET packet_size == ReadExact(r, 4)
    IN  IF packet_size.kind = "err" THEN Err(packet_size.rest)
        ELSE LET service_id == ServiceId_deserialize(packet_size.rest)
             IN  IF service_id.kind = "err" THEN Err(service_id.rest)
                 ELSE IF service_id.val = ServiceId_Chat
                 THEN LET msg == ChatMessage_deserialize(service_id.rest)
                      IN  IF msg.kind = "err" THEN Err(msg.rest)
                          ELSE Ok([variant |-> "Chat", msg |-> msg.val], msg.rest)
                 \* return err("route service id", service_id)
                 ELSE Err(service_id.rest)

RouteMessage_serialize(m) ==
    U32Bytes(WZero) \o U16Bytes(ServiceId_Chat) \o ChatMessage_serialize(m.msg)

(***************************************************************************)
(* ClientMessage (world/client): a derived codec over a u32 discriminant   *)
(* followed by one padding byte.  The enum declares thirteen variants and  *)
(* nothing else.  The payloads made of primitives are decoded; the other   *)
(* payloads are kept as the undecoded bytes that follow.                   *)
(***************************************************************************)
ClientMessage_discriminants == {2, 4, 6, 7, 11, 12, 14, 23, 27, 35, 57, 58, 62}

PostDiscPadding == 1

\* CharacterCreateResponse: a u8 enum of five variants
CharacterCreateResponse_deserialize(r) ==
    LET a == ReadExact(r, 1)
    IN  IF a.kind = "err" THEN Err(a.rest)
        ELSE IF a.val[1] > 4 THEN Err(a.rest)
        ELSE Ok(a.val[1], a.rest)

\* MinimumChatModeResponse: chat_mode u8, chat_channel u8
MinimumChatModeResponse_deserialize(r) ==
    LET f == ReadAll(r, <<1, 1>>)
    IN  IF f.kind = "err" THEN Err(f.rest)
        ELSE Ok([chat_mode |-> f.val[1][1], chat_channel |-> f.val[2][1]], f.rest)

\* a payload whose fields are declared outside these files
Opaque_deserialize(r) ==
    IF r.tail = WZero THEN Ok(r.bytes, Reader(<<>>, WZero)) ELSE Err(r)

ClientMessage_payload(d, r) ==
    IF d = 6 THEN CharacterListResponse_deserialize(r)
    ELSE IF d = 7 THEN CharacterCreateResponse_deserialize(r)
    ELSE IF d = 57 THEN MinimumChatModeResponse_deserialize(r)
    ELSE Opaque_deserialize(r)

\* a decoder with a fallback variant carrying an undeclared discriminant
ClientMessage_deserialize_open(r) ==
    LET disc == ReadExact(r, 4)
    IN  IF disc.kind = "err" THEN Err(disc.rest)
        ELSE IF ~(U32Of(disc.val).hi = 0
                  /\ U32Of(disc.val).lo \in ClientMessage_discriminants)
        THEN Ok([variant |-> "Unrecognized", payload |-> U32Of(disc.val)], disc.rest)
        ELSE LET pad == ReadExact(disc.rest, PostDiscPadding)
             IN  IF pad.kind = "err" THEN Err(pad.rest)
                 ELSE LET p == ClientMessage_payload(U32Of(disc.val).lo, pad.rest)
                      IN  IF p.kind = "err" THEN Err(p.rest)
                          ELSE Ok([variant |-> U32Of(disc.val).lo, payload |-> p.val],
                                  p.rest)

ClientMessage_deserialize(r) ==
    LET disc == ReadExact(r, 4)
    IN  IF disc.kind = "err" THEN Err(disc.rest)
        ELSE IF ~(U32Of(disc.val).hi = 0
                  /\ U32Of(disc.val).lo \in ClientMessage_discriminants)
        THEN Err(disc.rest)
        ELSE LET pad == ReadExact(disc.rest, PostDiscPadding)
             IN  IF pad.kind = "err" THEN Err(pad.rest)
                 ELSE LET p == ClientMessage_payload(U32Of(disc.val).lo, pad.rest)
                      IN  IF p.kind = "err" THEN Err(p.rest)
                          ELSE Ok([variant |-> U32Of(disc.val).lo, payload |-> p.val],
                                  p.rest)

(***************************************************************************)
(* Inputs: the values encoded and the raw streams a peer may send.         *)
(***************************************************************************)
\* values and raw streams the character list is exercised with
ObjIds == {<<1, 0, 0, 0, 0, 0, 0, 0>>, <<2, 0, 0, 0, 0, 0, 0, Pow8 - 1>>}

CharListChars == {[obj_id |-> o] : o \in ObjIds}

\* lengths around the u8 boundary of the count prefix
LongLists == {Pow8 - 1, Pow8, Pow8 + 1}

CharacterListResponses ==
    {[selected_char |-> s, chars |-> c] :
        s \in {0, 1},
        c \in SeqsUpTo(CharListChars, MaxChars)
              \cup {[i \in 1..n |-> [obj_id |-> <<i % Pow8, 0, 0, 0, 0, 0, 0, 0>>]] :
                        n \in LongLists}}

\* a record as a peer may send it: any bytes in the padding
RawChars == {o \o <<p, 0, 0, p>> : o \in ObjIds, p \in {0, 7}}

\* a stream cut short by k bytes
Chop(bs, k) == SubSeq(bs, 1, Len(bs) - k)

RawCharacterListResponses ==
    {Chop(<<c, s>> \o Concat(recs), k) :
        c \in 0..(MaxChars + 1), s \in {0, 1},
        recs \in SeqsUpTo(RawChars, MaxChars), k \in {0, 1}}

\* contents of fixed-capacity strings
Names == SeqsUpTo({97, 20013}, MaxName)

Checksums == {[i \in 1..ChecksumLen |-> i], [i \in 1..ChecksumLen |-> Pow8 - i]}

ClientValidations ==
    {[username |-> u, session_key |-> k, fdb_checksum |-> c] :
        u \in Names, k \in Names, c \in Checksums}

\* the encoding with the filler byte replaced, cut short by k bytes or
\* followed by one more byte
RawClientValidations ==
    {Chop(Chop(ClientValidation_serialize(m), 1) \o <<g>> \o x, k) :
        m \in ClientValidations, g \in {0, 171}, x \in {<<>>, <<9>>},
        k \in {0, 1, 2, 3, ChecksumLen + 2}}

U32s == {W(0, 1), W(Pow16 - 1, Pow16 - 2)}

CharacterCreateRequests ==
    {[char_name |-> n, predef_name_ids |-> <<a, b, c>>,
      shirt_color |-> b, pants_color |-> c, hair_style |-> a, hair_color |-> c,
      eyebrow_style |-> b, eye_style |-> a, mouth_style |-> c] :
        n \in Names, a \in U32s, b \in U32s, c \in {W(2, 3)}}

\* field f of the layout filled with byte j
Junk(f, j) == [i \in 1..CharacterCreateRequest_widths[f] |-> j]

\* a request as a peer may send it: any bytes in the unused fields
RawCharacterCreateRequest(m, j) ==
    LuWStr_serialize(m.char_name, Cap33)
        \o U32Bytes(m.predef_name_ids[1])
        \o U32Bytes(m.predef_name_ids[2])
        \o U32Bytes(m.predef_name_ids[3])
        \o Junk(4, j) \o Junk(5, j) \o Junk(6, j)
        \o U32Bytes(m.shirt_color)
        \o Junk(8, j)
        \o U32Bytes(m.pants_color)
        \o U32Bytes(m.hair_style)
        \o U32Bytes(m.hair_color)
        \o Junk(12, j) \o Junk(13, j)
        \o U32Bytes(m.eyebrow_style)
        \o U32Bytes(m.eye_style)
        \o U32Bytes(m.mouth_style)
        \o Junk(17, j)

RawCharacterCreateRequests ==
    {Chop(RawCharacterCreateRequest(m, j) \o x, k) :
        m \in CharacterCreateRequests, j \in {0, 238}, x \in {<<>>, <<9>>},
        k \in {0, 1}}

\* code units of raw strings: a letter, the terminator, a lone surrogate
RawUnits == {97, 0, 55296}

\* length prefixes of a GeneralChatMessage: small ones, and the u32 values
\* whose double does not fit a u32
SmallLens == 0..(MaxLen + 1)

HugeLens == {W(Pow15, 0), W(Pow16 - 1, Pow16 - 1)}

\* a run of zero bytes long enough for any u32 count of code units
LongTail == W(2 * Pow16, 0)

RawGeneralChatMessages ==
    {Reader(<<1>> \o <<2, 3>> \o U32Bytes(W(0, n)) \o BytesOf(us), WZero) :
        n \in SmallLens, us \in SeqsUpTo(RawUnits, MaxLen + 1)}
    \cup {Reader(<<1>> \o <<2, 3>> \o U32Bytes(n), LongTail) : n \in HugeLens}
    \cup {Reader(Chop(<<1, 2, 3>> \o U32Bytes(WZero), k), WZero) : k \in 1..2}

\* scalar values of strings: a letter, NUL, a CJK character, one outside
\* the basic plane
Scalars == {97, 0, 20013, 66560}

\* a string of n scalar values: a letter, then U+0000
Run(n) == Str(<<97>>, n - 1)

\* string lengths around the u16 boundaries of the length prefix
LongLens == {Pow15 - 1, Pow15, Pow16 - 1, Pow16}

StringChecks ==
    {[chat_mode |-> 1, chat_channel |-> 2, recipient_name |-> n, string |-> StrOf(str)] :
        n \in Names, str \in SeqsUpTo(Scalars, MaxLen)}
    \cup {[chat_mode |-> 1, chat_channel |-> 2, recipient_name |-> <<97>>,
           string |-> Run(n)] : n \in LongLens}

RawStringChecks ==
    {Reader(<<1, 2>> \o LuWStr_serialize(<<97>>, Cap42) \o U16Bytes(n) \o BytesOf(us),
            WZero) :
        n \in SmallLens, us \in SeqsUpTo(RawUnits, MaxLen + 1)}
    \cup {Reader(<<1, 2>> \o LuWStr_serialize(<<97>>, Cap42) \o U16Bytes(n),
                 W(2, 0)) : n \in {Pow15, Pow16 - 1}}
    \cup {Reader(Chop(<<1, 2>> \o LuWStr_serialize(<<97>>, Cap42) \o U16Bytes(1), k),
                 WZero) : k \in 1..3}

ChatMessages == {[disc |-> W(0, 1)], [disc |-> W(3, 7)]}

RouteMessages == {[variant |-> "Chat", msg |-> c] : c \in ChatMessages}

\* any length field, any u16 identifier, a whole, short or over-long payload
RawRouteMessages ==
    {size \o U16Bytes(id) \o payload :
        size \in {U32Bytes(WZero), U32Bytes(W(Pow16 - 1, Pow16 - 1)), <<4, 0, 0, 0>>},
        id \in ServiceIds \cup {3, 6, 258, 512},
        payload \in {<<>>, <<1, 0>>, <<1, 0, 0, 0>>, <<7, 0, 3, 0, 9>>}}
    \cup {<<0, 0, 0>>, <<0, 0, 0, 0, 2>>}

\* discriminants a peer may send: the declared ones and others
RawDiscriminants ==
    {W(0, d) : d \in ClientMessage_discriminants \cup {0, 1, 3, 5, 63, Pow16 - 1}}
    \cup {W(1, 6), W(Pow16 - 1, Pow16 - 1)}

RawClientMessages ==
    {U32Bytes(d) \o p : d \in RawDiscriminants,
        p \in {<<>>, <<0>>, <<9, 1>>, <<0, 1, 2>>, <<0, 9, 0>>,
               <<0, 1, 0>> \o (CHOOSE c \in RawChars : TRUE)}}
    \cup {<<6, 0>>}

(***************************************************************************)
(* The state machine.  A stream is put in flight either by a peer (any     *)
(* bytes) or by encoding a value; the receiver decodes it once, as the     *)
(* message type its envelope names.                                        *)
(***************************************************************************)
Builds == {"debug", "release"}

Flight(t, r) == [for |-> t, r |-> r]

Init ==
    /\ build \in Builds
    /\ wire = Flight("none", Reader(<<>>, WZero))
    /\ sent = None
    /\ recv = None

Idle == wire.for = "none"

\* a value is encoded into a fresh in-memory writer
Send(t, m, r) ==
    /\ Idle
    /\ wire' = Flight(t, r)
    /\ sent' = [type |-> t, val |-> m]
    /\ recv' = None
    /\ UNCHANGED build

\* a peer's bytes arrive for message type t
Arrive(t, r) ==
    /\ Idle
    /\ wire' = Flight(t, r)
    /\ sent' = None
    /\ recv' = None
    /\ UNCHANGED build

\* the outcome of decoding the stream in flight
Deliver(t, res) ==
    /\ wire.for = t
    /\ recv = None
    /\ \E o \in Outcomes(build, res) : recv' = [type |-> t, res |-> o]
    /\ UNCHANGED <<build, wire, sent>>

\* the decoded message is handed on and the stream dropped
Discard ==
    /\ recv # None
    /\ wire' = Flight("none", Reader(<<>>, WZero))
    /\ sent' = None
    /\ recv' = None
    /\ UNCHANGED build

SendCharacterListResponse ==
    \E m \in CharacterListResponses :
        Send("CharacterListResponse", m,
             Reader(CharacterListResponse_serialize(m), WZero))

ArriveCharacterListResponse ==
    \E bs \in RawCharacterListResponses :
        Arrive("CharacterListResponse", Reader(bs, WZero))

DecodeCharacterListResponse ==
    Deliver("CharacterListResponse", CharacterListResponse_deserialize(wire.r))

SendClientValidation ==
    \E m \in ClientValidations :
        Send("ClientValidation", m, Reader(ClientValidation_serialize(m), WZero))

ArriveClientValidation ==
    \E bs \in RawClientValidations : Arrive("ClientValidation", Reader(bs, WZero))

DecodeClientValidation ==
    Deliver("ClientValidation", ClientValidation_deserialize(wire.r))

SendCharacterCreateRequest ==
    \E m \in CharacterCreateRequests :
        Send("CharacterCreateRequest", m,
             Reader(CharacterCreateRequest_serialize(m), WZero))

ArriveCharacterCreateRequest ==
    \E bs \in RawCharacterCreateRequests :
        Arrive("CharacterCreateRequest", Reader(bs, WZero))

DecodeCharacterCreateRequest ==
    Deliver("CharacterCreateRequest", CharacterCreateRequest_deserialize(wire.r))

ArriveGeneralChatMessage ==
    \E r \in RawGeneralChatMessages : Arrive("GeneralChatMessage", r)

DecodeGeneralChatMessage ==
    Deliver("GeneralChatMessage", GeneralChatMessage_deserialize(build, wire.r))

SendStringCheck ==
    \E m \in StringChecks : Send("StringCheck", m, StringCheck_serialize(m))

ArriveStringCheck ==
    \E r \in RawStringChecks : Arrive("StringCheck", r)

DecodeStringCheck ==
    Deliver("StringCheck", StringCheck_deserialize(build, wire.r))

SendRouteMessage ==
    \E m \in RouteMessages : Send("RouteMessage", m, Reader(RouteMessage_serialize(m), WZero))

ArriveRouteMessage ==
    \E bs \in RawRouteMessages : Arrive("RouteMessage", Reader(bs, WZero))

DecodeRouteMessage ==
    Deliver("RouteMessage", RouteMessage_deserialize(wire.r))

ArriveClientMessage ==
    \E bs \in RawClientMessages : Arrive("ClientMessage", Reader(bs, WZero))

DecodeClientMessage ==
    Deliver("ClientMessage", ClientMessage_deserialize(wire.r))

Next ==
    \/ SendCharacterListResponse
    \/ ArriveCharacterListResponse
    \/ DecodeCharacterListResponse
    \/ SendClientValidation
    \/ ArriveClientValidation
    \/ DecodeClientValidation
    \/ SendCharacterCreateRequest
    \/ ArriveCharacterCreateRequest
    \/ DecodeCharacterCreateRequest
    \/ ArriveGeneralChatMessage
    \/ DecodeGeneralChatMessage
    \/ SendStringCheck
    \/ ArriveStringCheck
    \/ DecodeStringCheck
    \/ SendRouteMessage
    \/ ArriveRouteMessage
    \/ DecodeRouteMessage
    \/ ArriveClientMessage
    \/ DecodeClientMessage
    \/ Discard

Spec == Init /\ [][Next]_vars

(***************************************************************************)
(* Claims                                                                  *)
(***************************************************************************)
Decoded(t) == recv.type = t

RecLen == ObjIdLen + ObjIdPad

\* the stream in flight has the form [count][selected][rec_0]...[rec_{count-1}]
ListWellFormed ==
    /\ Len(wire.r.bytes) >= 2
    /\ Len(wire.r.bytes) >= 2 + RecLen * wire.r.bytes[1]

\* C1: decoding [count][selected][rec_0]...[rec_{count-1}] as a
\* CharacterListResponse succeeds with selected_char = selected and chars the
\* count records in their wire order.
C1_ListDecodeOrder ==
    (Decoded("CharacterListResponse") /\ ListWellFormed) =>
        /\ recv.res.kind = "ok"
        /\ recv.res.val.selected_char = wire.r.bytes[2]
        /\ Len(recv.res.val.chars) = wire.r.bytes[1]
        /\ \A i \in 1..wire.r.bytes[1] :
              recv.res.val.chars[i].obj_id
                  = SubSeq(wire.r.bytes, 2 + RecLen * (i - 1) + 1,
                           2 + RecLen * (i - 1) + ObjIdLen)

C1_Witness ==
    /\ Decoded("CharacterListResponse")
    /\ ListWellFormed
    /\ wire.r.bytes[1] = 2
    /\ wire.r.bytes[2] = 1
    /\ recv.res.kind = "ok"
    /\ Len(recv.res.val.chars) = 2
    /\ recv.res.val.chars[1] # recv.res.val.chars[2]

\* C5: encoding a CharacterListResponse writes a count prefix equal to the
\* number of records written after it, whatever the length of chars, so a
\* decoder of the produced bytes reads every record and consumes them all.
C5_TrueCount ==
    /\ (sent.type = "CharacterListResponse") =>
          /\ wire.r.bytes[1] = Len(sent.val.chars)
          /\ Len(wire.r.bytes) = 2 + RecLen * wire.r.bytes[1]
    /\ (sent.type = "CharacterListResponse" /\ Decoded("CharacterListResponse")) =>
          /\ recv.res.kind = "ok"
          /\ recv.res.val = sent.val
          /\ recv.res.rest.bytes = <<>>

\* the wire length of a ClientValidation: two 33-unit strings, the checksum
\* and the filler byte
ValidationLen == 2 * (2 * Cap33) + ChecksumLen + 1

WithByte(bs, i, v) == [bs EXCEPT ![i] = v]

\* C2: decoding a ClientValidation consumes the two 33-unit strings, exactly
\* 32 checksum bytes and exactly one filler byte whose value does not reach
\* the result; encoding writes a zero byte after the 32 checksum bytes.
C2_ValidationFiller ==
    /\ (Decoded("ClientValidation") /\ Len(wire.r.bytes) >= ValidationLen) =>
          /\ recv.res.kind = "ok"
          /\ recv.res.val.fdb_checksum
                = SubSeq(wire.r.bytes, ValidationLen - ChecksumLen, ValidationLen - 1)
          /\ recv.res.rest.bytes
                = SubSeq(wire.r.bytes, ValidationLen + 1, Len(wire.r.bytes))
          /\ \A g \in {0, 1, Pow8 - 1} :
                ClientValidation_deserialize(
                    Reader(WithByte(wire.r.bytes, ValidationLen, g), WZero)).val
                  = recv.res.val
    /\ (sent.type = "ClientValidation") =>
          /\ Len(wire.r.bytes) = ValidationLen
          /\ wire.r.bytes[ValidationLen] = 0
          /\ SubSeq(wire.r.bytes, ValidationLen - ChecksumLen, ValidationLen - 1)
                = sent.val.fdb_checksum

C2_Witness ==
    /\ Decoded("ClientValidation")
    /\ Len(wire.r.bytes) > ValidationLen
    /\ wire.r.bytes[ValidationLen] = 171
    /\ recv.res.kind = "ok"
    /\ recv.res.val.username # <<>>
    /\ recv.res.rest.bytes = <<9>>

\* the wire length of a CharacterCreateRequest
CreateLen == 2 * Cap33 + 15 * 4 + 2

\* 1-based byte positions of the seven unused fields: u8, u32, u32 after
\* the name ids; u32 after shirt_color; u32, u32 after hair_color; last u8
CreateUnused == (79..87) \cup (92..95) \cup (108..115) \cup {CreateLen}

ZeroedAt(bs, P) == [i \in 1..Len(bs) |-> IF i \in P THEN 0 ELSE bs[i]]

\* C9: encode writes zero at the seven unused fields of a
\* CharacterCreateRequest and decode discards the bytes at the same
\* positions, so decode consumes exactly what encode wrote and
\* decode(encode(m)) = m.
C9_CreateRequestLayout ==
    /\ (sent.type = "CharacterCreateRequest") =>
          /\ Len(wire.r.bytes) = CreateLen
          /\ \A i \in CreateUnused : wire.r.bytes[i] = 0
          /\ U32Of(SubSeq(wire.r.bytes, 88, 91)) = sent.val.shirt_color
          /\ U32Of(SubSeq(wire.r.bytes, 124, 127)) = sent.val.mouth_style
    /\ (sent.type = "CharacterCreateRequest" /\ Decoded("CharacterCreateRequest")) =>
          /\ recv.res.kind = "ok"
          /\ recv.res.val = sent.val
          /\ recv.res.rest.bytes = <<>>
    /\ (Decoded("CharacterCreateRequest") /\ Len(wire.r.bytes) >= CreateLen) =>
          /\ recv.res.kind = "ok"
          /\ recv.res.rest.bytes = SubSeq(wire.r.bytes, CreateLen + 1, Len(wire.r.bytes))
          /\ recv.res.val
                = CharacterCreateRequest_deserialize(
                      Reader(ZeroedAt(wire.r.bytes, CreateUnused), WZero)).val
          /\ CharacterCreateRequest_serialize(recv.res.val)
                = ZeroedAt(SubSeq(wire.r.bytes, 1, CreateLen), CreateUnused)

C9_Witness ==
    /\ sent.type = "CharacterCreateRequest"
    /\ Decoded("CharacterCreateRequest")
    /\ recv.res.kind = "ok"
    /\ recv.res.val = sent.val
    /\ sent.val.char_name # <<>>
    /\ sent.val.shirt_color # sent.val.pants_color
    /\ sent.val.eye_style.hi = Pow16 - 1

\* offsets of the length prefix within a StringCheck and a GeneralChatMessage
CheckHead == 2 + 2 * Cap42

ChatHead == 1 + 2

\* C3: encoding a StringCheck writes a u16 prefix equal to the number of
\* code units of the string, then exactly those code units, and decoding
\* the bytes yields the message again.
C3_ExclusiveRoundTrip ==
    /\ (sent.type = "StringCheck") =>
          /\ U16Of(SubSeq(wire.r.bytes, CheckHead + 1, CheckHead + 2))
                = Utf16Len(sent.val.string)
          /\ Avail(wire.r) = WOfInt(CheckHead + 2 + 2 * Utf16Len(sent.val.string))
    /\ (sent.type = "StringCheck" /\ Decoded("StringCheck")) =>
          /\ recv.res.kind = "ok"
          /\ recv.res.val = sent.val

\* the length prefix of the GeneralChatMessage in flight (its header is whole)
ChatLen == U32Of(SubSeq(wire.r.bytes, ChatHead + 1, ChatHead + 4))

ChatHeadWhole == Len(wire.r.bytes) >= ChatHead + 4

\* the bytes after the length prefix
ChatData == Reader(SubSeq(wire.r.bytes, ChatHead + 5, Len(wire.r.bytes)), wire.r.tail)

\* C4: decoding a GeneralChatMessage with length prefix n >= 1 followed by
\* n code units yields the string read from the first n-1 code units, the
\* last unit being dropped whatever its value.
C4_InclusiveDropsLast ==
    (/\ Decoded("GeneralChatMessage")
     /\ ChatHeadWhole
     /\ ChatLen # WZero
     /\ WLeq(WDouble(ChatLen), Avail(ChatData))) =>
        /\ recv.res.kind = "ok"
        /\ recv.res.val.message
              = from_utf16_lossy(
                    SubSeq(UnitsOf(ChatData.bytes), 1, IntOf(ChatLen) - 1))

\* the length prefix of the StringCheck in flight (its header is whole)
CheckLen == U16Of(SubSeq(wire.r.bytes, CheckHead + 1, CheckHead + 2))

CheckHeadWhole == Len(wire.r.bytes) >= CheckHead + 2

CheckData == Reader(SubSeq(wire.r.bytes, CheckHead + 3, Len(wire.r.bytes)), wire.r.tail)

\* C8: decoding is an error whenever the stream ends before a field has
\* its bytes: fewer than 2*length bytes of character data in a
\* GeneralChatMessage or StringCheck, or fewer than 32 checksum bytes in a
\* ClientValidation.
C8_TruncatedIsError ==
    /\ (/\ Decoded("GeneralChatMessage")
         /\ ChatHeadWhole
         /\ ~WLeq(WDouble(ChatLen), Avail(ChatData))) => recv.res.kind = "err"
    /\ (/\ Decoded("StringCheck")
         /\ CheckHeadWhole
         /\ ~WLeq(WOfInt(2 * CheckLen), Avail(CheckData))) => recv.res.kind = "err"
    /\ (/\ Decoded("ClientValidation")
         /\ Len(wire.r.bytes) < ValidationLen - 1) => recv.res.kind = "err"

\* C10: decoding a GeneralChatMessage whose length prefix is 0 has a
\* defined outcome, an error or the empty string.
C10_ZeroLengthDefined ==
    (Decoded("GeneralChatMessage") /\ ChatHeadWhole /\ ChatLen = WZero) =>
        \/ recv.res.kind = "err"
        \/ (recv.res.kind = "ok" /\ recv.res.val.message = <<>>)

\* the discriminant of the ClientMessage in flight (its four bytes are there)
ClientDisc == U32Of(SubSeq(wire.r.bytes, 1, 4))

Declared(d) == d.hi = 0 /\ d.lo \in {2, 4, 6, 7, 11, 12, 14, 23, 27, 35, 57, 58, 62}

RouteId == U16Of(SubSeq(wire.r.bytes, 5, 6))

WithSize(bs, b) == [i \in 1..Len(bs) |-> IF i <= 4 THEN b ELSE bs[i]]

\* C7: decoding a RouteMessage ignores the leading u32 length, decodes the
\* chat payload when the identifier is Chat and fails on every other
\* identifier without consuming a byte after it; encode writes 0 as length.
C7_RouteDispatch ==
    /\ (Decoded("RouteMessage") /\ Len(wire.r.bytes) >= 6) =>
          /\ \A b \in {0, 1, Pow8 - 1} :
                RouteMessage_deserialize(Reader(WithSize(wire.r.bytes, b), WZero))
                  = recv.res
          /\ (RouteId = ServiceId_Chat) =>
                LET msg == ChatMessage_deserialize(
                               Reader(SubSeq(wire.r.bytes, 7, Len(wire.r.bytes)), WZero))
                IN  /\ recv.res.kind = msg.kind
                    /\ recv.res.rest = msg.rest
                    /\ (msg.kind = "ok") =>
                          recv.res.val = [variant |-> "Chat", msg |-> msg.val]
          /\ (RouteId # ServiceId_Chat) =>
                /\ recv.res.kind = "err"
                /\ recv.res.rest.bytes = SubSeq(wire.r.bytes, 7, Len(wire.r.bytes))
    /\ (sent.type = "RouteMessage") =>
          /\ SubSeq(wire.r.bytes, 1, 4) = <<0, 0, 0, 0>>
          /\ Decoded("RouteMessage") =>
                (recv.res.kind = "ok" /\ recv.res.val = sent.val)

C7_Witness ==
    /\ Decoded("RouteMessage")
    /\ Len(wire.r.bytes) >= 6
    /\ SubSeq(wire.r.bytes, 1, 4) = <<Pow8 - 1, Pow8 - 1, Pow8 - 1, Pow8 - 1>>
    /\ RouteId = ServiceId_Chat
    /\ recv.res.kind = "ok"
    /\ recv.res.val.msg.disc = W(3, 7)
    /\ recv.res.rest.bytes = <<9>>

\* C11: for every length prefix n >= 1 followed by its 2*n bytes of
\* character data, decoding a StringCheck or a GeneralChatMessage succeeds
\* and leaves the reader exactly 2*n bytes past the prefix: the byte count
\* 2*n, computed in the width of the prefix, does not wrap.
C11_ByteCountNeverWraps ==
    /\ (/\ Decoded("StringCheck")
         /\ CheckHeadWhole
         /\ CheckLen >= 1
         /\ WLeq(WOfInt(2 * CheckLen), Avail(CheckData))) =>
            /\ recv.res.kind = "ok"
            /\ recv.res.rest = AdvanceW(CheckData, WOfInt(2 * CheckLen))
    /\ (/\ Decoded("GeneralChatMessage")
         /\ ChatHeadWhole
         /\ ChatLen # WZero
         /\ WLeq(WDouble(ChatLen), Avail(ChatData))) =>
            /\ recv.res.kind = "ok"
            /\ recv.res.rest = AdvanceW(ChatData, WDouble(ChatLen))

====
